---- MODULE Spec2Model ----
(***************************************************************************)
(* Chord ring of dht_node.py (class Node and the wiring of its __main__).  *)
(* Nodes are identified by their ids; the 2^160 identifier ring is scaled  *)
(* down to 2^M points.  Every operation of Node is one atomic action: the  *)
(* in-memory variant is single threaded.                                   *)
(*                                                                         *)
(* The Pastry overlay of pastry_node.py and the B+ tree of local_index.py  *)
(* follow the Chord part; each of the three has its own specification      *)
(* (Spec, SpecPastry, SpecBTree) and leaves the others' variables alone.   *)
(* Further specifications over the same variables: SpecBetween applies     *)
(* _is_between to every argument tuple, SpecWiring and SpecPastryJoin wire *)
(* and join over every set of ring points, SpecRoute runs lookup_recursive *)
(* on every leaf-set assignment, SpecPastryConc interleaves key calls that *)
(* run on threads of their own.                                            *)
(***************************************************************************)
EXTENDS Integers, FiniteSets, Sequences, TLC

\* ---------------------------------------------------------------- bounds
M == 3                     \* m of Node.__init__, scaled down from 160
MaxWired == 3              \* largest ring built by the initial wiring
MaxChurn == 2              \* joins + leaves explored after the wiring
MaxWrites == 2             \* insert/update/delete calls explored
MaxPastryChurn == 1        \* Pastry joins + leaves explored after the wiring
MaxThreads == 2            \* Pastry key calls running concurrently

RingSize == 2 ^ M
Ids == 0 .. (RingSize - 1)

None == -1                 \* Python None (no predecessor, lookup miss)
Diverged == -2             \* find_successor that never returns (RecursionError)

\* the ids of the Node objects the harness constructs (hash of "ip:port")
NodeIds == {0, 3, 4, 6}

Titles == {"a", "b"}
Values == {0, 1}           \* 0 models a falsy payload such as {}

\* _generate_hash: a fixed, deterministic map from titles into the ring
_generate_hash(t) == IF t = "a" THEN 3 ELSE 5

Keys == {_generate_hash(t) : t \in Titles}

Truthy(v) == v # None /\ v # 0

VARIABLES
  successor,      \* Node.successor of every node object
  predecessor,    \* Node.predecessor (None when unset)
  finger_table,   \* Node.finger_table, indices 0..M-1
  storage,        \* Node.storage: key -> value, None when the key is absent
  nodes,          \* the list `nodes` of __main__: the live nodes
  pc,             \* "new" before the ring exists, "run", "crashed" after a raise
  churn,          \* joins + leaves done since the ring was built
  writes,         \* insert/update/delete calls done
  fixed,          \* the nodes that ran _fix_fingers on the ring as it is now
  last            \* the operation that completed last

vars == <<successor, predecessor, finger_table, storage, nodes, pc, churn, writes, fixed, last>>

\* ------------------------------------------------ state of the Pastry overlay
\* the ids of the PastryNode objects the harness constructs
PastryIds == {1, 4, 6}

VARIABLES
  leaf_set,       \* PastryNode.leaf_set: a list of NodeInfo, here of ids
  p_storage,      \* PastryNode.storage: key -> stored value, None when absent
  server,         \* accept loop of start_server: "up", "last" (running is
                  \* False, one accept still pending), "down" (socket closed)
  pastry_nodes,   \* the list pastry_nodes of the harness: the live nodes
  HAS_BPLUSTREE,  \* module flag: storage is the bplustree library, else a dict
  p_pc,           \* "new" before the network exists, then "run"
  p_churn,        \* joins + leaves done since the wiring
  p_writes,       \* insert/update/delete calls done
  p_last,         \* the call that completed last, with its result
  p_calls,        \* the key calls running on threads of their own, in the
                  \* order they were started, each with its position
  p_loaded        \* history: p_storage when the first thread was started

conc_vars == <<p_calls, p_loaded>>

pastry_vars == <<leaf_set, p_storage, server, pastry_nodes, HAS_BPLUSTREE,
                 p_pc, p_churn, p_writes, p_last, p_calls, p_loaded>>

\* ---------------------------------------------------- state of the B+ tree
VARIABLES
  heap,           \* the BPlusTreeNode objects, by address 1 .. Len(heap)
  root,           \* BPlusTree.root
  order,          \* BPlusTree.order
  shadow,         \* history: the dictionary the calls so far describe
  b_pc,           \* "new" right after the constructor, then "run"
  b_ops,          \* insert/delete/clear calls done after the bulk load
  b_last          \* the call that completed last, with its result

btree_vars == <<heap, root, order, shadow, b_pc, b_ops, b_last>>

\* no call runs on a thread of its own
ConcIdle == p_calls = << >> /\ p_loaded = << >>

\* the overlay or index that a specification does not exercise stays idle
PastryIdle ==
  /\ leaf_set = [n \in PastryIds |-> << >>]
  /\ p_storage = [n \in PastryIds |-> << >>]
  /\ server = [n \in PastryIds |-> "up"]
  /\ pastry_nodes = {}
  /\ HAS_BPLUSTREE = FALSE
  /\ p_pc = "idle"
  /\ p_churn = 0
  /\ p_writes = 0
  /\ p_last = << >>
  /\ ConcIdle

BTreeIdle ==
  /\ heap = << >>
  /\ root = 0
  /\ order = 0
  /\ shadow = << >>
  /\ b_pc = "idle"
  /\ b_ops = 0
  /\ b_last = << >>

ChordIdle ==
  /\ successor = << >>
  /\ predecessor = << >>
  /\ finger_table = << >>
  /\ storage = << >>
  /\ nodes = {}
  /\ pc = "idle"
  /\ churn = 0
  /\ writes = 0
  /\ fixed = {}
  /\ last = << >>

\* ------------------------------------------------------------ pure helpers
\* _is_between with the wrap-around branch joined by "and" instead of "or"
_is_between_nowrap(key, n1, n2, inclusive_end) ==
  IF n1 < n2
  THEN IF ~inclusive_end THEN n1 < key /\ key < n2 ELSE n1 < key /\ key <= n2
  ELSE IF ~inclusive_end THEN (n1 < key) /\ (key < n2) ELSE (n1 < key) /\ (key <= n2)

\* _is_between whose wrap-around branch never admits the end point
_is_between_open_wrap(key, n1, n2, inclusive_end) ==
  IF n1 < n2
  THEN IF ~inclusive_end THEN n1 < key /\ key < n2 ELSE n1 < key /\ key <= n2
  ELSE (n1 < key) \/ (key < n2)

_is_between(key, n1, n2, inclusive_end) ==
  IF n1 < n2
  THEN IF ~inclusive_end THEN n1 < key /\ key < n2 ELSE n1 < key /\ key <= n2
  ELSE IF ~inclusive_end THEN (n1 < key) \/ (key < n2) ELSE (n1 < key) \/ (key <= n2)

RECURSIVE ScanFingers(_, _, _, _)
ScanFingers(ft, n, key, i) ==
  IF i < 0 THEN n
  ELSE IF ft[n][i] # None /\ _is_between(ft[n][i], n, key, FALSE) THEN ft[n][i]
  ELSE ScanFingers(ft, n, key, i - 1)

\* closest_preceding_node that takes the highest finger other than the node
\* itself, without the test that it lies between the node and the key
closest_preceding_node_untested(ft, n, key) ==
  IF \E i \in 0 .. (M - 1) : ft[n][i] # n
  THEN ft[n][CHOOSE i \in 0 .. (M - 1) :
               ft[n][i] # n /\ \A j \in (i + 1) .. (M - 1) : ft[n][j] = n]
  ELSE n

closest_preceding_node(ft, n, key) == ScanFingers(ft, n, key, M - 1)

\* find_successor on node n with the pointers succ and finger tables ft.
\* fuel counts the forwards still allowed: a walk of more than RingSize
\* forwards has revisited a node and so never returns.
RECURSIVE FindSucc(_, _, _, _, _)
FindSucc(succ, ft, n, key, fuel) ==
  IF _is_between(key, n, succ[n], TRUE) THEN succ[n]
  ELSE LET n_prime == closest_preceding_node(ft, n, key) IN
       IF n_prime = n THEN succ[n]
       ELSE IF fuel = 0 THEN Diverged
       ELSE FindSucc(succ, ft, n_prime, key, fuel - 1)

find_successor(succ, ft, n, key) == FindSucc(succ, ft, n, key, RingSize)

\* the nodes on which one find_successor call runs, in call order; Diverged
\* closes the list of a call that is still forwarding after RingSize forwards
RECURSIVE Visited(_, _, _, _, _)
Visited(succ, ft, n, key, fuel) ==
  IF _is_between(key, n, succ[n], TRUE) THEN <<n>>
  ELSE LET n_prime == closest_preceding_node(ft, n, key) IN
       IF n_prime = n THEN <<n>>
       ELSE IF fuel = 0 THEN <<n, Diverged>>
       ELSE <<n>> \o Visited(succ, ft, n_prime, key, fuel - 1)

\* _fix_fingers: entry i is set before entry i+1 is computed
RECURSIVE FixFrom(_, _, _, _)
FixFrom(succ, ft, n, i) ==
  IF i >= M THEN ft
  ELSE LET start == (n + 2 ^ i) % (2 ^ M)
           f == find_successor(succ, ft, n, start)
       IN IF f = Diverged THEN [ft EXCEPT ![n][i] = Diverged]
          ELSE FixFrom(succ, [ft EXCEPT ![n][i] = f], n, i + 1)

_fix_fingers(succ, ft, n) == FixFrom(succ, ft, n, 0)

FixRaised(ft, n) == \E i \in 0 .. (M - 1) : ft[n][i] = Diverged

\* ------------------------------------------------------------------- Init
EmptyStorage == [k \in Keys |-> None]

NoOp == [op |-> "none", node |-> None, title |-> "", val |-> None, res |-> None]

Init ==
  /\ successor = [n \in NodeIds |-> n]
  /\ predecessor = [n \in NodeIds |-> None]
  /\ finger_table = [n \in NodeIds |-> [i \in 0 .. (M - 1) |-> n]]
  /\ storage = [n \in NodeIds |-> EmptyStorage]
  /\ nodes = {}
  /\ pc = "new"
  /\ churn = 0
  /\ writes = 0
  /\ fixed = {}
  /\ last = NoOp
  /\ PastryIdle
  /\ BTreeIdle

\* ------------------------------------------------- __main__ ring wiring
MinOf(S) == CHOOSE x \in S : \A y \in S : x <= y
MaxOf(S) == CHOOSE x \in S : \A y \in S : x >= y

\* nodes[(i + 1) % len(nodes)] and nodes[(i - 1) % len(nodes)] of the sorted list
NextInList(S, n) == IF \E x \in S : x > n THEN MinOf({x \in S : x > n}) ELSE MinOf(S)
PrevInList(S, n) == IF \E x \in S : x < n THEN MaxOf({x \in S : x < n}) ELSE MaxOf(S)

\* for node in nodes: node._fix_fingers(), in the order of the sorted list
RECURSIVE FixAll(_, _, _)
FixAll(succ, ft, todo) ==
  IF todo = {} THEN ft
  ELSE LET n == MinOf(todo) IN FixAll(succ, _fix_fingers(succ, ft, n), todo \ {n})

Wire(S) ==
  /\ pc = "new"
  /\ LET succ == [n \in DOMAIN successor |->
                    IF n \in S THEN NextInList(S, n) ELSE successor[n]]
         pred == [n \in DOMAIN predecessor |->
                    IF n \in S THEN PrevInList(S, n) ELSE predecessor[n]]
         ft == FixAll(succ, finger_table, S)
     IN /\ successor' = succ
        /\ predecessor' = pred
        /\ finger_table' = ft
        /\ pc' = IF \E n \in S : FixRaised(ft, n) THEN "crashed" ELSE "run"
  /\ nodes' = S
  /\ fixed' = S
  /\ last' = [NoOp EXCEPT !.op = "wire"]
  /\ UNCHANGED <<storage, churn, writes>>

\* a ring of one freshly constructed node (successor = self, no predecessor)
Single(n) ==
  /\ pc = "new"
  /\ nodes' = {n}
  /\ pc' = "run"
  /\ last' = [NoOp EXCEPT !.op = "single", !.node = n]
  /\ UNCHANGED <<successor, predecessor, finger_table, storage, churn, writes, fixed>>

\* ------------------------------------------------------- data operations
Owner(n, key) == find_successor(successor, finger_table, n, key)

\* the storage after insert_key(title, data) issued at node n
InsertEffect(sto, n, title, data) ==
  LET key == _generate_hash(title)
      responsible_node == Owner(n, key)
  IN [sto EXCEPT ![responsible_node][key] = data]

\* the value lookup_key(title) issued at node n returns, on the ring with
\* pointers succ, finger tables ft and storage sto
LookupIn(succ, ft, sto, n, title) ==
  LET key == _generate_hash(title)
      responsible_node == find_successor(succ, ft, n, key)
      data == sto[responsible_node][key]
  IN IF Truthy(data) THEN data ELSE None

LookupKey(n, title) == LookupIn(successor, finger_table, storage, n, title)

\* the storage after delete_key(title) issued at node n
DeleteEffect(sto, n, title) ==
  LET key == _generate_hash(title)
      responsible_node == Owner(n, key)
  IN IF sto[responsible_node][key] # None
     THEN [sto EXCEPT ![responsible_node][key] = None]
     ELSE sto

\* update_key that stores new_data whether or not the key is present
UpdateEffectUpsert(sto, n, title, new_data) ==
  LET key == _generate_hash(title)
      responsible_node == Owner(n, key)
  IN [sto EXCEPT ![responsible_node][key] = new_data]

\* the storage after update_key(title, new_data) issued at node n
UpdateEffect(sto, n, title, new_data) ==
  LET key == _generate_hash(title)
      responsible_node == Owner(n, key)
  IN IF sto[responsible_node][key] # None
     THEN [sto EXCEPT ![responsible_node][key] = new_data]
     ELSE sto

Raise(op, n, t) ==
  /\ pc' = "crashed"
  /\ last' = [NoOp EXCEPT !.op = op, !.node = n, !.title = t, !.res = Diverged]

insert_key(n, title, data) ==
  /\ pc = "run" /\ n \in nodes /\ writes < MaxWrites
  /\ IF Owner(n, _generate_hash(title)) = Diverged
     THEN Raise("insert", n, title) /\ UNCHANGED <<storage, writes>>
     ELSE /\ storage' = InsertEffect(storage, n, title, data)
          /\ writes' = writes + 1
          /\ last' = [op |-> "insert", node |-> None, title |-> title, val |-> data, res |-> None]
          /\ UNCHANGED pc
  /\ UNCHANGED <<successor, predecessor, finger_table, nodes, churn, fixed>>

lookup_key(n, title) ==
  /\ pc = "run" /\ n \in nodes
  /\ IF Owner(n, _generate_hash(title)) = Diverged
     THEN Raise("lookup", n, title)
     ELSE /\ last' = [op |-> "lookup", node |-> None, title |-> title, val |-> None,
                      res |-> LookupKey(n, title)]
          /\ UNCHANGED pc
  /\ UNCHANGED <<successor, predecessor, finger_table, storage, nodes, churn, writes, fixed>>

delete_key(n, title) ==
  /\ pc = "run" /\ n \in nodes /\ writes < MaxWrites
  /\ IF Owner(n, _generate_hash(title)) = Diverged
     THEN Raise("delete", n, title) /\ UNCHANGED <<storage, writes>>
     ELSE /\ storage' = DeleteEffect(storage, n, title)
          /\ writes' = writes + 1
          /\ last' = [op |-> "delete", node |-> None, title |-> title, val |-> None,
                      res |-> IF storage[Owner(n, _generate_hash(title))][_generate_hash(title)] # None
                              THEN 1 ELSE 0]
          /\ UNCHANGED pc
  /\ UNCHANGED <<successor, predecessor, finger_table, nodes, churn, fixed>>

update_key(n, title, new_data) ==
  /\ pc = "run" /\ n \in nodes /\ writes < MaxWrites
  /\ IF Owner(n, _generate_hash(title)) = Diverged
     THEN Raise("update", n, title) /\ UNCHANGED <<storage, writes>>
     ELSE /\ storage' = UpdateEffect(storage, n, title, new_data)
          /\ writes' = writes + 1
          /\ last' = [op |-> "update", node |-> n, title |-> title, val |-> new_data,
                      res |-> IF storage[Owner(n, _generate_hash(title))][_generate_hash(title)] # None
                              THEN 1 ELSE 0]
          /\ UNCHANGED pc
  /\ UNCHANGED <<successor, predecessor, finger_table, nodes, churn, fixed>>

\* ------------------------------------------------------ join and leave
\* The pointers after steps 1 and 2 of join (lines 109-116), statement by
\* statement; s is the successor that known_node.find_successor returned.
JoinSucc(n, s) ==
  LET succ1 == [successor EXCEPT ![n] = s]
      pred1 == [predecessor EXCEPT ![n] = predecessor[succ1[n]]]
  IN IF pred1[succ1[n]] # None
     THEN [succ1 EXCEPT ![pred1[succ1[n]]] = n]
     ELSE succ1

JoinPred(n, s) ==
  LET succ1 == [successor EXCEPT ![n] = s]
      pred1 == [predecessor EXCEPT ![n] = predecessor[succ1[n]]]
      succ2 == JoinSucc(n, s)
  IN [pred1 EXCEPT ![succ2[n]] = n]

\* keys_to_move of join (lines 124-129); only evaluated with a predecessor
KeysToMove(sto, succ, pred, n) ==
  {k \in Keys : sto[succ[n]][k] # None /\ _is_between(k, pred[n], n, TRUE)}

\* lines 131-133: copy to self, then delete at the successor
MoveKeys(sto, succ, n, move) ==
  [x \in DOMAIN sto |-> [k \in Keys |->
     IF k \in move
     THEN IF x = succ[n] THEN None
          ELSE IF x = n THEN sto[succ[n]][k]
          ELSE sto[x][k]
     ELSE sto[x][k]]]

join(n, known_node) ==
  /\ pc = "run" /\ n \notin nodes /\ known_node \in nodes /\ churn < MaxChurn
  /\ LET s == find_successor(successor, finger_table, known_node, n) IN
     IF s = Diverged
     THEN /\ Raise("join", n, "")
          /\ UNCHANGED <<successor, predecessor, finger_table, storage, nodes, churn, fixed>>
     ELSE LET succ2 == JoinSucc(n, s)
              pred2 == JoinPred(n, s)
              ft2 == _fix_fingers(succ2, finger_table, n)
              hasKeys == \E k \in Keys : storage[succ2[n]][k] # None
          IN /\ successor' = succ2
             /\ predecessor' = pred2
             /\ finger_table' = ft2
             /\ IF FixRaised(ft2, n) \/ (hasKeys /\ pred2[n] = None)
                THEN \* RecursionError, or AttributeError on self.predecessor.id
                     /\ Raise("join", n, "")
                     /\ UNCHANGED <<storage, nodes, churn, fixed>>
                ELSE /\ storage' = MoveKeys(storage, succ2, n,
                                            KeysToMove(storage, succ2, pred2, n))
                     /\ nodes' = nodes \cup {n}
                     /\ churn' = churn + 1
                     /\ fixed' = {n}
                     /\ last' = [NoOp EXCEPT !.op = "join", !.node = n]
                     /\ UNCHANGED pc
  /\ UNCHANGED writes

\* lines 147-150: every entry goes to the successor, then the own dict is cleared
LeaveStorage(sto, succ, n) ==
  [x \in DOMAIN sto |->
     IF x = n THEN EmptyStorage
     ELSE IF x = succ[n]
          THEN [k \in Keys |-> IF sto[n][k] # None THEN sto[n][k] ELSE sto[x][k]]
          ELSE sto[x]]

\* lines 153-160, statement by statement
LeaveSucc(n) ==
  LET succ1 == IF predecessor[n] # None
               THEN [successor EXCEPT ![predecessor[n]] = successor[n]]
               ELSE successor
  IN [succ1 EXCEPT ![n] = n]

LeavePred(n) ==
  LET succ1 == IF predecessor[n] # None
               THEN [successor EXCEPT ![predecessor[n]] = successor[n]]
               ELSE successor
      pred1 == [predecessor EXCEPT ![succ1[n]] = predecessor[n]]
  IN [pred1 EXCEPT ![n] = None]

leave(n) ==
  /\ pc = "run" /\ n \in nodes /\ churn < MaxChurn
  /\ storage' = LeaveStorage(storage, successor, n)
  /\ successor' = LeaveSucc(n)
  /\ predecessor' = LeavePred(n)
  /\ nodes' = nodes \ {n}
  /\ churn' = churn + 1
  /\ fixed' = {}
  /\ last' = [NoOp EXCEPT !.op = "leave", !.node = n]
  /\ UNCHANGED <<finger_table, pc, writes>>

\* ----------------------------------------------------------- specification
Next ==
  \/ \E S \in SUBSET NodeIds : Cardinality(S) \in 1 .. MaxWired /\ Wire(S)
                                /\ UNCHANGED <<pastry_vars, btree_vars>>
  \/ \E n \in NodeIds : Single(n) /\ UNCHANGED <<pastry_vars, btree_vars>>
  \/ \E n \in NodeIds, t \in Titles, v \in Values :
       insert_key(n, t, v) /\ UNCHANGED <<pastry_vars, btree_vars>>
  \/ \E n \in NodeIds, t \in Titles :
       lookup_key(n, t) /\ UNCHANGED <<pastry_vars, btree_vars>>
  \/ \E n \in NodeIds, t \in Titles :
       delete_key(n, t) /\ UNCHANGED <<pastry_vars, btree_vars>>
  \/ \E n \in NodeIds, t \in Titles, v \in Values :
       update_key(n, t, v) /\ UNCHANGED <<pastry_vars, btree_vars>>
  \/ \E n \in NodeIds, k \in NodeIds :
       join(n, k) /\ UNCHANGED <<pastry_vars, btree_vars>>
  \/ \E n \in NodeIds : leave(n) /\ UNCHANGED <<pastry_vars, btree_vars>>

Spec == Init /\ [][Next]_vars

\* ------------------------------------------------------ what claims refer to
\* the first node of S at or clockwise after key
Responsible(S, key) ==
  IF \E x \in S : x >= key THEN MinOf({x \in S : x >= key}) ELSE MinOf(S)

\* successor/predecessor pointers form the cycle of the live nodes in id order
RingInOrder ==
  \A n \in nodes : /\ successor[n] = NextInList(nodes, n)
                   /\ predecessor[n] = PrevInList(nodes, n)

\* the values the live nodes hold for a title
StoredVals(sto, S, t) == {sto[x][_generate_hash(t)] : x \in S} \ {None}

Holders(sto, S, k) == {x \in S : sto[x][k] # None}

RECURSIVE SumOver(_, _)
SumOver(f, S) ==
  IF S = {} THEN 0
  ELSE LET x == CHOOSE y \in S : TRUE IN f[x] + SumOver(f, S \ {x})

\* number of (key, value) pairs held by the nodes of S
TotalPairs(sto, S) ==
  SumOver([x \in NodeIds |-> Cardinality({k \in Keys : sto[x][k] # None})], S)

\* C1: after insert_key(t, v) completes, lookup_key(t) issued at any live
\* node returns v (stated for the payloads that pass the test `if data`).
C1_InsertThenLookup ==
  (pc = "run" /\ last.op = "insert" /\ Truthy(last.val)) =>
    \A n \in nodes : LookupKey(n, last.title) = last.val

JoinDone == last'.op = "join" /\ churn' = churn + 1
LeaveDone == last'.op = "leave" /\ churn' = churn + 1

\* every stored key sits at its responsible live node and nowhere else
AllAtResponsible ==
  \A x \in NodeIds : \A k \in Keys :
    storage[x][k] # None => (x \in nodes /\ x = Responsible(nodes, k))

\* k lies on the clockwise arc (a, b]
InArc(k, a, b) ==
  LET d == (b - a) % RingSize
      len == IF d = 0 THEN RingSize ELSE d
  IN ((k - a) % RingSize) \in 1 .. len \/ k = b

\* the title is stored on the ring, with payloads that pass `if data`
Stored(sto, S, t) ==
  StoredVals(sto, S, t) # {} /\ \A v \in StoredVals(sto, S, t) : Truthy(v)

\* C3: after a join completes, lookup_key(t) issued at any live node returns
\* the stored value of every title that was stored before the join.
C3_JoinKeepsLookups ==
  [][JoinDone =>
       \A t \in Titles : Stored(storage, nodes, t) =>
         \A n \in nodes' : LookupIn(successor', finger_table', storage', n, t) \in StoredVals(storage, nodes, t)]_vars

\* C4: after a successful join of n onto a ring in which every key is stored
\* at its responsible node, n has a predecessor and holds exactly the entries
\* with key in (n.predecessor.id, n.id], with their previous values, and the
\* old successor holds none of them.
C4_JoinTakesItsArc ==
  [][(JoinDone /\ AllAtResponsible) =>
       LET n == last'.node IN
       /\ predecessor'[n] # None
       /\ \A k \in Keys :
            IF predecessor'[n] # None /\ InArc(k, predecessor'[n], n)
            THEN /\ storage'[n][k] \in {storage[x][k] : x \in nodes}
                 /\ (Holders(storage, nodes, k) # {} => storage'[n][k] # None)
                 /\ (successor'[n] # n => storage'[successor'[n]][k] = None)
            ELSE storage'[n][k] = None]_vars

\* C5: a leave that leaves at least one live node behind keeps the total
\* number of (key, value) pairs held by the live nodes.
C5_LeaveKeepsCount ==
  [][(LeaveDone /\ nodes' # {}) =>
       TotalPairs(storage', nodes') = TotalPairs(storage, nodes)]_vars

\* C6: after a leave, lookup_key(t) issued at any remaining live node returns
\* the stored value of every title stored before the leave, and no lookup is
\* answered by the departed node.
C6_LeaveKeepsLookups ==
  [][LeaveDone =>
       /\ \A t \in Titles : Stored(storage, nodes, t) =>
            \A n \in nodes' : LookupIn(successor', finger_table', storage', n, t) \in StoredVals(storage, nodes, t)
       /\ \A n \in nodes' : \A k \in Keys : find_successor(successor', finger_table', n, k) \in nodes']_vars

\* C7: after any sequence of completed joins and leaves the successor
\* pointers form the cycle of the live nodes in id order and
\* n.successor.predecessor = n for every live node n.
C7_RingAfterChurn ==
  (pc = "run" /\ churn >= 1) =>
    \A n \in nodes : /\ successor[n] = NextInList(nodes, n)
                     /\ predecessor[successor[n]] = n

\* C8: between operations every key is stored by at most one live node.
C8_SingleHolder ==
  pc = "run" => \A k \in Keys : Cardinality(Holders(storage, nodes, k)) <= 1

C10_DeleteThenLookup ==
  (pc = "run" /\ last.op = "delete") =>
    \A n \in nodes : LookupKey(n, last.title) = None

\* ======================================================================
\* Pastry overlay of pastry_node.py.  A NodeInfo is represented by its id;
\* the calls of a node are atomic actions, an RPC being a nested call on
\* the target whose server still accepts connections.
\* ======================================================================
LeafSetSize == 4           \* candidates[:4] of PastryNode.join

Raised == -3               \* an exception left the call
PNone == [node |-> None, hops |-> None]     \* a reply that is Python None
PDiverged == [node |-> Diverged, hops |-> Diverged]   \* no reply ever

\* abs(int(a) - int(b)) of route and join
Dist(a, b) == IF a >= b THEN a - b ELSE b - a

\* json.dumps(data).encode('utf-8') and its inverse json.loads(b.decode())
JsonBytes(v) == v + 100
JsonLoads(b) == b - 100

PEmptyStorage == [k \in Keys |-> None]

PNoOp == [op |-> "none", node |-> None, title |-> "", val |-> None,
          res |-> None, owner |-> None, hops |-> None, hops_in |-> None]

\* the loop of route over the leaf set, a strictly smaller distance wins
\* the loop of route with `dist <= best_dist`: an equal distance wins too
RECURSIVE RouteScanTies(_, _, _, _, _)
RouteScanTies(ls, i, key, best_node, best_dist) ==
  IF i > Len(ls) THEN best_node
  ELSE IF Dist(ls[i], key) <= best_dist
       THEN RouteScanTies(ls, i + 1, key, ls[i], Dist(ls[i], key))
       ELSE RouteScanTies(ls, i + 1, key, best_node, best_dist)

RECURSIVE RouteScan(_, _, _, _, _)
RouteScan(ls, i, key, best_node, best_dist) ==
  IF i > Len(ls) THEN best_node
  ELSE IF Dist(ls[i], key) < best_dist
       THEN RouteScan(ls, i + 1, key, ls[i], Dist(ls[i], key))
       ELSE RouteScan(ls, i + 1, key, best_node, best_dist)

route(ls, n, key) ==
  LET best_node == RouteScan(ls[n], 1, key, n, Dist(n, key))
  IN [node |-> best_node, forward |-> best_node # n]

\* send_request(target, ..) issued by node `from`: a local call when the
\* target is the caller, else a connection that a closed socket refuses
Delivered(srv, from, target) == target = from \/ srv[target] # "down"

\* lookup_recursive: the reply of send_request is returned as it is, so a
\* refused connection (send_request returns None, it never raises) makes the
\* whole chain return None
\* fuel counts the forwards still allowed: a chain of more forwards than
\* there are nodes has come back to a node and so never returns
RECURSIVE LookupRec(_, _, _, _, _, _)
LookupRec(ls, srv, n, key, hops, fuel) ==
  LET res == route(ls, n, key)
  IN IF ~res.forward THEN [node |-> n, hops |-> hops]
     ELSE IF ~Delivered(srv, n, res.node) THEN PNone
     ELSE IF fuel = 0 THEN PDiverged
     ELSE LookupRec(ls, srv, res.node, key, hops + 1, fuel - 1)

lookup_recursive(ls, srv, n, key, hops) ==
  LookupRec(ls, srv, n, key, hops, Cardinality(DOMAIN ls))

\* the nodes on which the chain of lookup_recursive handlers runs, in call
\* order; Diverged closes the list of a chain that never returns
RECURSIVE PVisited(_, _, _, _, _)
PVisited(ls, srv, n, key, fuel) ==
  LET res == route(ls, n, key)
  IN IF ~res.forward \/ ~Delivered(srv, n, res.node) THEN <<n>>
     ELSE IF fuel = 0 THEN <<n, Diverged>>
     ELSE <<n>> \o PVisited(ls, srv, res.node, key, fuel - 1)

\* the nodes whose server accepted a connection during lookup_recursive
Contacted(ls, srv, n, key) ==
  LET path == PVisited(ls, srv, n, key, Cardinality(DOMAIN ls))
  IN {path[i] : i \in 2 .. Len(path)} \ {Diverged}

\* start_server: once running is False the accept that was pending is the
\* last one, the loop then leaves and the listening socket is closed
Drain(srv, C) ==
  [x \in DOMAIN srv |-> IF x \in C /\ srv[x] = "last" THEN "down" ELSE srv[x]]

\* cleanup closed the B+ tree file of a node that left
Closed(srv, bpt, x) == bpt /\ srv[x] # "up"

\* insert_local on node x (an exception in a remote handler is answered by
\* {'status': 'error'} and stores nothing)
insert_local(sto, srv, bpt, x, key_int, data) ==
  IF Closed(srv, bpt, x) THEN sto
  ELSE [sto EXCEPT ![x][key_int] = IF bpt THEN JsonBytes(data) ELSE data]

\* lookup_local on node x: the 'val' of the reply
lookup_local(sto, srv, bpt, x, key_int) ==
  IF bpt
  THEN IF Closed(srv, bpt, x) \/ sto[x][key_int] = None THEN None
       ELSE JsonLoads(sto[x][key_int])
  ELSE sto[x][key_int]

\* delete_local on node x
delete_local(sto, srv, bpt, x, key_int) ==
  IF Closed(srv, bpt, x) THEN sto ELSE [sto EXCEPT ![x][key_int] = None]

PInit ==
  /\ leaf_set = [n \in PastryIds |-> << >>]
  /\ p_storage = [n \in PastryIds |-> PEmptyStorage]
  /\ server = [n \in PastryIds |-> "up"]
  /\ pastry_nodes = {}
  /\ HAS_BPLUSTREE \in BOOLEAN
  /\ p_pc = "new"
  /\ p_churn = 0
  /\ p_writes = 0
  /\ p_last = PNoOp
  /\ ConcIdle
  /\ ChordIdle
  /\ BTreeIdle

\* run_experiment: sort by id, leaf set = [previous, next] with wrap-around
PWire(S) ==
  /\ p_pc = "new"
  /\ pastry_nodes' = S
  /\ leaf_set' = [n \in DOMAIN leaf_set |->
                    IF n \in S THEN <<PrevInList(S, n), NextInList(S, n)>>
                    ELSE leaf_set[n]]
  /\ p_pc' = "run"
  /\ p_last' = [PNoOp EXCEPT !.op = "wire"]
  /\ UNCHANGED <<p_storage, server, HAS_BPLUSTREE, p_churn, p_writes>>

\* the RPC handler lookup_recursive(key_hex, hops) entered at node n
pastry_lookup_recursive(n, key, hops) ==
  /\ p_pc = "run" /\ n \in pastry_nodes
  /\ LET res == lookup_recursive(leaf_set, server, n, key, hops)
     IN /\ server' = Drain(server, Contacted(leaf_set, server, n, key))
        /\ p_last' = [PNoOp EXCEPT !.op = "lookup_recursive", !.node = n,
                                   !.val = key, !.owner = res.node,
                                   !.hops = res.hops, !.hops_in = hops]
  /\ UNCHANGED <<leaf_set, p_storage, pastry_nodes, HAS_BPLUSTREE, p_pc,
                 p_churn, p_writes>>

\* insert_key: res['node'] raises TypeError when lookup_recursive gave None
InsertKeyEffect(n, title, data, op) ==
  LET key_int == _generate_hash(title)
      res == lookup_recursive(leaf_set, server, n, key_int, 0)
      srv1 == Drain(server, Contacted(leaf_set, server, n, key_int))
      target == res.node
  IN IF res = PNone
     THEN /\ server' = srv1
          /\ p_last' = [PNoOp EXCEPT !.op = op, !.res = Raised]
          /\ UNCHANGED p_storage
     ELSE /\ p_storage' = IF Delivered(srv1, n, target)
                          THEN insert_local(p_storage, srv1, HAS_BPLUSTREE,
                                            target, key_int, data)
                          ELSE p_storage
          /\ server' = Drain(srv1, {target} \ {n})
          /\ p_last' = [PNoOp EXCEPT !.op = op]

pastry_insert_key(n, title, data) ==
  /\ p_pc = "run" /\ n \in pastry_nodes /\ p_writes < MaxWrites
  /\ InsertKeyEffect(n, title, data, "insert")
  /\ p_writes' = p_writes + 1
  /\ UNCHANGED <<leaf_set, pastry_nodes, HAS_BPLUSTREE, p_pc, p_churn>>

\* update_key is a call of insert_key
pastry_update_key(n, title, new_data) ==
  /\ p_pc = "run" /\ n \in pastry_nodes /\ p_writes < MaxWrites
  /\ InsertKeyEffect(n, title, new_data, "update")
  /\ p_writes' = p_writes + 1
  /\ UNCHANGED <<leaf_set, pastry_nodes, HAS_BPLUSTREE, p_pc, p_churn>>

pastry_delete_key(n, title) ==
  /\ p_pc = "run" /\ n \in pastry_nodes /\ p_writes < MaxWrites
  /\ LET key_int == _generate_hash(title)
         res == lookup_recursive(leaf_set, server, n, key_int, 0)
         srv1 == Drain(server, Contacted(leaf_set, server, n, key_int))
         target == res.node
     IN IF res = PNone
        THEN /\ server' = srv1
             /\ p_last' = [PNoOp EXCEPT !.op = "delete", !.res = Raised]
             /\ UNCHANGED p_storage
        ELSE /\ p_storage' = IF Delivered(srv1, n, target)
                             THEN delete_local(p_storage, srv1, HAS_BPLUSTREE,
                                               target, key_int)
                             ELSE p_storage
             /\ server' = Drain(srv1, {target} \ {n})
             /\ p_last' = [PNoOp EXCEPT !.op = "delete"]
  /\ p_writes' = p_writes + 1
  /\ UNCHANGED <<leaf_set, pastry_nodes, HAS_BPLUSTREE, p_pc, p_churn>>

\* lookup_key: res['node'] and data_res['val'] raise TypeError on None
pastry_lookup_key(n, title) ==
  /\ p_pc = "run" /\ n \in pastry_nodes
  /\ LET key_int == _generate_hash(title)
         res == lookup_recursive(leaf_set, server, n, key_int, 0)
         srv1 == Drain(server, Contacted(leaf_set, server, n, key_int))
         target == res.node
     IN IF res = PNone
        THEN /\ server' = srv1
             /\ p_last' = [PNoOp EXCEPT !.op = "lookup",
                                        !.title = title, !.res = Raised]
        ELSE IF ~Delivered(srv1, n, target)
        THEN /\ server' = srv1
             /\ p_last' = [PNoOp EXCEPT !.op = "lookup",
                                        !.title = title, !.res = Raised]
        ELSE /\ server' = Drain(srv1, {target} \ {n})
             /\ p_last' = [PNoOp EXCEPT !.op = "lookup",
                                        !.title = title, !.hops = res.hops,
                                        !.res = lookup_local(p_storage, srv1,
                                                  HAS_BPLUSTREE, target, key_int)]
  /\ UNCHANGED <<leaf_set, p_storage, pastry_nodes, HAS_BPLUSTREE, p_pc,
                 p_churn, p_writes>>

Elems(seq) == {seq[i] : i \in 1 .. Len(seq)}

\* list.sort(key = distance to me): stable, equal distances keep their order
RECURSIVE InsertByDist(_, _, _)
InsertByDist(sorted, x, me) ==
  IF sorted = << >> THEN <<x>>
  ELSE IF Dist(x, me) < Dist(sorted[Len(sorted)], me)
       THEN Append(InsertByDist(SubSeq(sorted, 1, Len(sorted) - 1), x, me),
                   sorted[Len(sorted)])
       ELSE Append(sorted, x)

RECURSIVE SortByDist(_, _)
SortByDist(seq, me) ==
  IF seq = << >> THEN << >>
  ELSE InsertByDist(SortByDist(SubSeq(seq, 1, Len(seq) - 1), me), seq[Len(seq)], me)

\* the leaf set the joiner builds from get_leaf_set of the known node
JoinLeafSet(ls, n, known_node) ==
  LET candidates == SortByDist(Append(ls[known_node], known_node), n)
  IN SubSeq(candidates, 1, IF Len(candidates) < LeafSetSize
                           THEN Len(candidates) ELSE LeafSetSize)

\* join: get_leaf_set is a local call on known_node, then every member of the
\* new leaf set is sent update_leaf_set with the joiner's leaf set as payload
pastry_join(n, known_node) ==
  /\ p_pc = "run" /\ p_churn < MaxPastryChurn
  /\ n \notin pastry_nodes /\ server[n] = "up"
  /\ known_node \in pastry_nodes
  /\ LET mine == JoinLeafSet(leaf_set, n, known_node)
     IN /\ leaf_set' = [x \in DOMAIN leaf_set |->
                          IF x = n THEN mine
                          ELSE IF x \in Elems(mine) /\ Delivered(server, n, x)
                               THEN mine
                               ELSE leaf_set[x]]
        /\ server' = Drain(server, Elems(mine) \ {n})
  /\ pastry_nodes' = pastry_nodes \cup {n}
  /\ p_churn' = p_churn + 1
  /\ p_last' = [PNoOp EXCEPT !.op = "join", !.node = n]
  /\ UNCHANGED <<p_storage, HAS_BPLUSTREE, p_pc, p_writes>>

\* the keys a node stores
StoredKeys(sto, x) == {k \in Keys : sto[x][k] # None}

\* leave: only the B+ tree branch hands the entries to leaf_set[0]
LeaveHandoff(sto, srv, bpt, n, neighbor) ==
  IF bpt /\ Delivered(srv, n, neighbor) /\ ~Closed(srv, bpt, neighbor)
  THEN [sto EXCEPT ![neighbor] =
          [k \in Keys |-> IF sto[n][k] # None
                          THEN JsonBytes(JsonLoads(sto[n][k]))
                          ELSE sto[neighbor][k]]]
  ELSE sto

pastry_leave(n) ==
  /\ p_pc = "run" /\ p_churn < MaxPastryChurn
  /\ n \in pastry_nodes
  /\ IF leaf_set[n] # << >>
     THEN LET neighbor == leaf_set[n][1]
          IN /\ p_storage' = LeaveHandoff(p_storage, server, HAS_BPLUSTREE, n, neighbor)
             /\ server' = [Drain(server,
                                 IF HAS_BPLUSTREE /\ StoredKeys(p_storage, n) # {}
                                 THEN {neighbor} \ {n} ELSE {})
                             EXCEPT ![n] = "last"]
     ELSE /\ p_storage' = p_storage
          /\ server' = [server EXCEPT ![n] = "last"]
  /\ pastry_nodes' = pastry_nodes \ {n}
  /\ p_churn' = p_churn + 1
  /\ p_last' = [PNoOp EXCEPT !.op = "leave", !.node = n]
  /\ UNCHANGED <<leaf_set, HAS_BPLUSTREE, p_pc, p_writes>>

\* the hop counts an RPC may carry into lookup_recursive
HopsIn == {0, 51}

PNext ==
  \/ \E S \in SUBSET PastryIds : Cardinality(S) \in 1 .. MaxWired /\ PWire(S)
                                  /\ UNCHANGED <<vars, btree_vars, conc_vars>>
  \/ \E n \in PastryIds, key \in Keys, h \in HopsIn :
       pastry_lookup_recursive(n, key, h) /\ UNCHANGED <<vars, btree_vars, conc_vars>>
  \/ \E n \in PastryIds, t \in Titles, v \in Values :
       pastry_insert_key(n, t, v) /\ UNCHANGED <<vars, btree_vars, conc_vars>>
  \/ \E n \in PastryIds, t \in Titles, v \in Values :
       pastry_update_key(n, t, v) /\ UNCHANGED <<vars, btree_vars, conc_vars>>
  \/ \E n \in PastryIds, t \in Titles :
       pastry_delete_key(n, t) /\ UNCHANGED <<vars, btree_vars, conc_vars>>
  \/ \E n \in PastryIds, t \in Titles :
       pastry_lookup_key(n, t) /\ UNCHANGED <<vars, btree_vars, conc_vars>>
  \/ \E n \in PastryIds, k \in PastryIds :
       pastry_join(n, k) /\ UNCHANGED <<vars, btree_vars, conc_vars>>
  \/ \E n \in PastryIds : pastry_leave(n) /\ UNCHANGED <<vars, btree_vars, conc_vars>>

SpecPastry == PInit /\ [][PNext]_pastry_vars

\* ---------------------------------------------- what the Pastry claims refer to
\* a network wired by the harness and not changed since, every server up
HarnessWired == p_pc = "run" /\ p_churn = 0

\* the owner lookup_recursive(key, 0) started at n reports
POwner(n, key) == lookup_recursive(leaf_set, server, n, key, 0).node

\* x is at minimum absolute id-distance to key among the nodes of S
Closest(S, x, key) == \A y \in S : Dist(x, key) <= Dist(y, key)

\* x is strictly closer to key than every other node of S
StrictlyClosest(S, x, key) == \A y \in S \ {x} : Dist(x, key) < Dist(y, key)

\* C11: in a network whose leaf sets are wired as the harness does,
\* lookup_recursive(key, 0) started at any live node returns the same owner
\* for a given key, and that owner has minimum absolute id-distance to the
\* key among all live nodes.
C11_SameClosestOwner ==
  HarnessWired =>
    \A key \in Ids : \A n \in pastry_nodes :
      /\ Closest(pastry_nodes, POwner(n, key), key)
      /\ \A m \in pastry_nodes : POwner(n, key) = POwner(m, key)

\* C12: lookup_recursive never returns hops greater than 50, and a call that
\* receives a hop count exceeding 50 returns the current node instead of
\* forwarding.
C12_HopsBounded ==
  (p_last.op = "lookup_recursive" /\ p_last.owner # None) =>
    /\ p_last.hops_in = 0 => p_last.hops <= 50
    /\ p_last.hops_in > 50 => p_last.owner = p_last.node /\ p_last.hops = p_last.hops_in

PJoinDone == p_last'.op = "join" /\ p_churn' = p_churn + 1
PLeaveDone == p_last'.op = "leave" /\ p_churn' = p_churn + 1

\* C13: after n.join(bootstrap) completes, the leaf set of every node that n
\* selected as a neighbour contains n's NodeInfo.
C13_NeighboursLearnJoiner ==
  [][PJoinDone =>
       LET n == p_last'.node
       IN \A x \in Elems(leaf_set'[n]) :
            server[x] = "up" => n \in Elems(leaf_set'[x])]_pastry_vars

\* the value node x holds for key k, decoded, None when it holds none
PValue(sto, bpt, x, k) ==
  IF sto[x][k] = None THEN None
  ELSE IF bpt THEN JsonLoads(sto[x][k]) ELSE sto[x][k]

\* C14: after a successful join of node n, n's local index contains exactly
\* the entries (k, v) for which n is numerically closer to k than every other
\* live node, and those entries are no longer held by their previous holders.
C14_JoinerTakesCloserKeys ==
  [][PJoinDone =>
       LET n == p_last'.node
       IN \A k \in Keys :
            LET held == {x \in pastry_nodes : p_storage[x][k] # None}
            IN IF held # {} /\ StrictlyClosest(pastry_nodes', n, k)
               THEN /\ p_storage'[n][k] # None
                    /\ \E x \in held :
                         PValue(p_storage', HAS_BPLUSTREE, n, k)
                           = PValue(p_storage, HAS_BPLUSTREE, x, k)
                    /\ \A x \in held : p_storage'[x][k] = None
               ELSE p_storage'[n][k] = None]_pastry_vars

\* the number of (key, value) pairs the nodes of S hold
PTotalPairs(sto, S) ==
  Cardinality({<<x, k>> \in S \X Keys : sto[x][k] # None})

\* C15: after n.leave() completes on a node with a non-empty leaf set and a
\* reachable first neighbour, every (k, v) that was in n's local index is in
\* the local index of leaf_set[0], so the number of pairs held by live nodes
\* is unchanged; this holds for both storage backends.
C15_LeaveHandsOver ==
  [][(PLeaveDone /\ leaf_set[p_last'.node] # << >>
        /\ server[leaf_set[p_last'.node][1]] = "up"
        /\ leaf_set[p_last'.node][1] \in pastry_nodes')
       => LET n == p_last'.node
              neighbor == leaf_set[n][1]
          IN /\ \A k \in StoredKeys(p_storage, n) :
                  PValue(p_storage', HAS_BPLUSTREE, neighbor, k)
                    = PValue(p_storage, HAS_BPLUSTREE, n, k)
             /\ PTotalPairs(p_storage', pastry_nodes')
                  = PTotalPairs(p_storage, pastry_nodes)]_pastry_vars

\* C16: lookup_key always returns a (value_or_null, hops) pair and never
\* raises, including when a forwarding RPC or the final lookup_local RPC
\* fails; likewise insert_key and delete_key never raise.
C16_KeyCallsNeverRaise ==
  p_last.op \in {"lookup", "insert", "delete"} => p_last.res # Raised

\* the node of the chain started at n whose forward is refused, with the hop
\* count it holds then; PNone when no forward of the chain is refused
RECURSIVE RefusedAt(_, _, _, _, _)
RefusedAt(ls, srv, n, key, hops) ==
  LET res == route(ls, n, key)
  IN IF ~res.forward THEN PNone
     ELSE IF ~Delivered(srv, n, res.node) THEN [node |-> n, hops |-> hops]
     ELSE RefusedAt(ls, srv, res.node, key, hops + 1)

\* C17: when the RPC that forwards a lookup to the next hop fails,
\* lookup_recursive on the forwarding node returns that node itself as the
\* owner together with its current hop count.
C17_ForwardFailureFallsBack ==
  [][(p_last'.op = "lookup_recursive"
        /\ RefusedAt(leaf_set, server, p_last'.node, p_last'.val, p_last'.hops_in) # PNone)
       => LET at == RefusedAt(leaf_set, server, p_last'.node, p_last'.val,
                              p_last'.hops_in)
          IN p_last'.owner = at.node /\ p_last'.hops = at.hops]_pastry_vars

\* ======================================================================
\* B+ tree of local_index.py.  A BPlusTreeNode object is a record stored at
\* an address of the heap; a tree is the pair [heap, root].
\* ======================================================================
MaxKey == 7                \* keys are 1 .. MaxKey
MaxOps == 3                \* insert/delete/clear calls explored after the load

BKeys == 1 .. MaxKey
BValues == {1, 2}
Orders == {3, 4}

\* BPlusTreeNode.__init__
BPlusTreeNode(leaf) ==
  [leaf |-> leaf, keys |-> << >>, values |-> << >>, children |-> << >>, next |-> None]

\* BPlusTree.__init__ and clear: the root is a fresh, empty leaf
EmptyTree == [heap |-> <<BPlusTreeNode(TRUE)>>, root |-> 1]

\* bisect.bisect_right(a, x): lo, hi are Python indices
RECURSIVE BisectRight(_, _, _, _)
BisectRight(a, x, lo, hi) ==
  IF lo >= hi THEN lo
  ELSE LET mid == (lo + hi) \div 2
       IN IF x < a[mid + 1] THEN BisectRight(a, x, lo, mid)
          ELSE BisectRight(a, x, mid + 1, hi)

\* bisect_right with the comparison of bisect_left: an equal key goes left
bisect_left(a, x) == Cardinality({i \in 1 .. Len(a) : a[i] < x})

bisect_right(a, x) == BisectRight(a, x, 0, Len(a))

\* list.insert(i, x), i a Python index
ListInsert(a, i, x) == SubSeq(a, 1, i) \o <<x>> \o SubSeq(a, i + 1, Len(a))

\* list.pop(i)
ListPop(a, i) == SubSeq(a, 1, i) \o SubSeq(a, i + 2, Len(a))

\* bisect.insort(a, x)
insort(a, x) == ListInsert(a, bisect_right(a, x), x)

\* list.index(x): the Python index of the first occurrence
ListIndex(a, x) == (CHOOSE i \in 1 .. Len(a) : a[i] = x /\ \A j \in 1 .. (i - 1) : a[j] # x) - 1

InList(a, x) == \E i \in 1 .. Len(a) : a[i] = x

RECURSIVE FindLeafFrom(_, _, _)
FindLeafFrom(h, node, key) ==
  IF h[node].leaf THEN node
  ELSE FindLeafFrom(h, h[node].children[bisect_right(h[node].keys, key) + 1], key)

_find_leaf(t, key) == FindLeafFrom(t.heap, t.root, key)

\* _find_parent: depth-first search from curr, None when child is not below
RECURSIVE FindParentScan(_, _, _, _)
FindParentScan(h, curr, child, i) ==
  IF h[curr].leaf \/ i > Len(h[curr].children) THEN None
  ELSE IF h[curr].children[i] = child THEN curr
  ELSE LET res == FindParentScan(h, h[curr].children[i], child, 1)
       IN IF res # None THEN res ELSE FindParentScan(h, curr, child, i + 1)

_find_parent(h, curr, child) == FindParentScan(h, curr, child, 1)

RECURSIVE _insert_into_parent(_, _, _, _, _)
RECURSIVE _split_internal(_, _, _)

_split_internal(t, ord, node) ==
  LET h == t.heap
      new_node == Len(h) + 1
      mid == Len(h[node].keys) \div 2
      split_key == h[node].keys[mid + 1]
      right == [BPlusTreeNode(FALSE) EXCEPT
                  !.keys = SubSeq(h[node].keys, mid + 2, Len(h[node].keys)),
                  !.children = SubSeq(h[node].children, mid + 2, Len(h[node].children))]
      left == [h[node] EXCEPT !.keys = SubSeq(h[node].keys, 1, mid),
                              !.children = SubSeq(h[node].children, 1, mid + 1)]
      h1 == Append([h EXCEPT ![node] = left], right)
  IN IF node = t.root
     THEN [heap |-> Append(h1, [BPlusTreeNode(FALSE) EXCEPT
                                  !.keys = <<split_key>>,
                                  !.children = <<node, new_node>>]),
           root |-> Len(h1) + 1]
     ELSE _insert_into_parent([heap |-> h1, root |-> t.root], ord, node, split_key, new_node)

_insert_into_parent(t, ord, old_child, key, new_child) ==
  LET h == t.heap
      parent == _find_parent(h, t.root, old_child)
      keys1 == insort(h[parent].keys, key)
      idx == ListIndex(keys1, key)
      h1 == [h EXCEPT ![parent].keys = keys1,
                      ![parent].children = ListInsert(h[parent].children, idx + 1, new_child)]
      t1 == [heap |-> h1, root |-> t.root]
  IN IF Len(keys1) > ord - 1 THEN _split_internal(t1, ord, parent) ELSE t1

\* _split_leaf with the two halves exchanged: the old leaf keeps the upper keys
_split_leaf_swapped(t, ord, leaf) ==
  LET h == t.heap
      new_leaf == Len(h) + 1
      mid == (Len(h[leaf].keys) + 1) \div 2
      right == [BPlusTreeNode(TRUE) EXCEPT
                  !.keys = SubSeq(h[leaf].keys, 1, mid),
                  !.values = SubSeq(h[leaf].values, 1, mid),
                  !.next = h[leaf].next]
      left == [h[leaf] EXCEPT !.keys = SubSeq(h[leaf].keys, mid + 1, Len(h[leaf].keys)),
                              !.values = SubSeq(h[leaf].values, mid + 1, Len(h[leaf].values)),
                              !.next = new_leaf]
      h1 == Append([h EXCEPT ![leaf] = left], right)
  IN IF leaf = t.root
     THEN [heap |-> Append(h1, [BPlusTreeNode(FALSE) EXCEPT
                                  !.keys = <<right.keys[1]>>,
                                  !.children = <<leaf, new_leaf>>]),
           root |-> Len(h1) + 1]
     ELSE _insert_into_parent([heap |-> h1, root |-> t.root], ord, leaf,
                              right.keys[1], new_leaf)

_split_leaf(t, ord, leaf) ==
  LET h == t.heap
      new_leaf == Len(h) + 1
      mid == (Len(h[leaf].keys) + 1) \div 2
      right == [BPlusTreeNode(TRUE) EXCEPT
                  !.keys = SubSeq(h[leaf].keys, mid + 1, Len(h[leaf].keys)),
                  !.values = SubSeq(h[leaf].values, mid + 1, Len(h[leaf].values)),
                  !.next = h[leaf].next]
      left == [h[leaf] EXCEPT !.keys = SubSeq(h[leaf].keys, 1, mid),
                              !.values = SubSeq(h[leaf].values, 1, mid),
                              !.next = new_leaf]
      h1 == Append([h EXCEPT ![leaf] = left], right)
  IN IF leaf = t.root
     THEN [heap |-> Append(h1, [BPlusTreeNode(FALSE) EXCEPT
                                  !.keys = <<right.keys[1]>>,
                                  !.children = <<leaf, new_leaf>>]),
           root |-> Len(h1) + 1]
     ELSE _insert_into_parent([heap |-> h1, root |-> t.root], ord, leaf,
                              right.keys[1], new_leaf)

\* BPlusTree.insert
insert(t, ord, key, value) ==
  LET h == t.heap
      leaf == _find_leaf(t, key)
  IN IF InList(h[leaf].keys, key)
     THEN [t EXCEPT !.heap[leaf].values[ListIndex(h[leaf].keys, key) + 1] = value]
     ELSE LET keys1 == insort(h[leaf].keys, key)
              idx == ListIndex(keys1, key)
              t1 == [t EXCEPT !.heap[leaf].keys = keys1,
                              !.heap[leaf].values = ListInsert(h[leaf].values, idx, value)]
          IN IF Len(keys1) > ord - 1 THEN _split_leaf(t1, ord, leaf) ELSE t1

\* BPlusTree.retrieve and its alias get
retrieve(t, key) ==
  LET leaf == _find_leaf(t, key)
  IN IF InList(t.heap[leaf].keys, key)
     THEN t.heap[leaf].values[ListIndex(t.heap[leaf].keys, key) + 1]
     ELSE None

\* BPlusTree.delete: the tree after the call (the leaf is never merged)
delete(t, key) ==
  LET leaf == _find_leaf(t, key)
  IN IF InList(t.heap[leaf].keys, key)
     THEN LET idx == ListIndex(t.heap[leaf].keys, key)
          IN [t EXCEPT !.heap[leaf].keys = ListPop(t.heap[leaf].keys, idx),
                       !.heap[leaf].values = ListPop(t.heap[leaf].values, idx)]
     ELSE t

\* BPlusTree.items: down children[0] to the first leaf, then along next
RECURSIVE FirstLeaf(_, _)
FirstLeaf(h, node) == IF h[node].leaf THEN node ELSE FirstLeaf(h, h[node].children[1])

RECURSIVE ItemsFrom(_, _)
ItemsFrom(h, current) ==
  IF current = None THEN << >>
  ELSE [i \in 1 .. Len(h[current].keys) |-> <<h[current].keys[i], h[current].values[i]>>]
         \o ItemsFrom(h, h[current].next)

items(t) == ItemsFrom(t.heap, FirstLeaf(t.heap, t.root))

tree == [heap |-> heap, root |-> root]

BNoOp == [op |-> "none", key |-> None, res |-> None]

BInit ==
  /\ heap = EmptyTree.heap
  /\ root = EmptyTree.root
  /\ order \in Orders
  /\ shadow = [k \in BKeys |-> None]
  /\ b_pc = "new"
  /\ b_ops = 0
  /\ b_last = BNoOp
  /\ ChordIdle
  /\ PastryIdle

\* the key sequences a caller loads the fresh index with: a run of
\* descending or of ascending keys
Descending(n) == [i \in 1 .. n |-> MaxKey + 1 - i]
Ascending(n) == [i \in 1 .. n |-> i]
LoadSeqs == {Descending(n) : n \in 0 .. MaxKey} \cup {Ascending(n) : n \in 1 .. MaxKey}

RECURSIVE InsertAll(_, _, _, _)
InsertAll(t, ord, seq, value) ==
  IF seq = << >> THEN t
  ELSE InsertAll(insert(t, ord, seq[1], value), ord, Tail(seq), value)

\* a loop of insert calls on the fresh tree
bt_load(seq) ==
  /\ b_pc = "new"
  /\ LET t == InsertAll(tree, order, seq, 1)
     IN heap' = t.heap /\ root' = t.root
  /\ shadow' = [k \in BKeys |-> IF InList(seq, k) THEN 1 ELSE None]
  /\ b_pc' = "run"
  /\ b_last' = [BNoOp EXCEPT !.op = "load"]
  /\ UNCHANGED <<order, b_ops>>

bt_insert(key, value) ==
  /\ b_pc = "run" /\ b_ops < MaxOps
  /\ LET t == insert(tree, order, key, value)
     IN heap' = t.heap /\ root' = t.root
  /\ shadow' = [shadow EXCEPT ![key] = value]
  /\ b_ops' = b_ops + 1
  /\ b_last' = [BNoOp EXCEPT !.op = "insert", !.key = key]
  /\ UNCHANGED <<order, b_pc>>

bt_delete(key) ==
  /\ b_pc = "run" /\ b_ops < MaxOps
  /\ LET t == delete(tree, key)
     IN heap' = t.heap /\ root' = t.root
  /\ shadow' = [shadow EXCEPT ![key] = None]
  /\ b_ops' = b_ops + 1
  /\ b_last' = [BNoOp EXCEPT !.op = "delete", !.key = key,
                             !.res = IF InList(heap[_find_leaf(tree, key)].keys, key)
                                     THEN 1 ELSE 0]
  /\ UNCHANGED <<order, b_pc>>

bt_clear ==
  /\ b_pc = "run" /\ b_ops < MaxOps
  /\ heap' = EmptyTree.heap /\ root' = EmptyTree.root
  /\ shadow' = [k \in BKeys |-> None]
  /\ b_ops' = b_ops + 1
  /\ b_last' = [BNoOp EXCEPT !.op = "clear"]
  /\ UNCHANGED <<order, b_pc>>

bt_get(key) ==
  /\ b_pc = "run"
  /\ b_last' = [BNoOp EXCEPT !.op = "get", !.key = key, !.res = retrieve(tree, key)]
  /\ UNCHANGED <<heap, root, order, shadow, b_pc, b_ops>>

BNext ==
  \/ \E seq \in LoadSeqs : bt_load(seq) /\ UNCHANGED <<vars, pastry_vars>>
  \/ \E k \in BKeys, v \in BValues : bt_insert(k, v) /\ UNCHANGED <<vars, pastry_vars>>
  \/ \E k \in BKeys : bt_delete(k) /\ UNCHANGED <<vars, pastry_vars>>
  \/ bt_clear /\ UNCHANGED <<vars, pastry_vars>>
  \/ \E k \in BKeys : bt_get(k) /\ UNCHANGED <<vars, pastry_vars>>

SpecBTree == BInit /\ [][BNext]_btree_vars

\* ---------------------------------------------- what the B+ tree claims refer to
\* the pairs of the dictionary in ascending key order
RECURSIVE ShadowItems(_, _)
ShadowItems(d, k) ==
  IF k > MaxKey THEN << >>
  ELSE (IF d[k] # None THEN <<<<k, d[k]>>>> ELSE << >>) \o ShadowItems(d, k + 1)

\* C18: for every order >= 3 and every sequence of insert, delete and clear
\* operations the tree behaves as a dictionary: get(k) returns the value of
\* the most recent insert(k, .) not followed by delete(k) or clear(), None
\* otherwise; items() returns exactly the present pairs, each once.
C18_Dictionary ==
  b_pc = "run" =>
    /\ \A k \in BKeys : retrieve(tree, k) = shadow[k]
    /\ LET it == items(tree)
       IN /\ \A k \in BKeys : shadow[k] # None =>
               Cardinality({i \in 1 .. Len(it) : it[i] = <<k, shadow[k]>>}) = 1
          /\ \A i \in 1 .. Len(it) : shadow[it[i][1]] = it[i][2]
          /\ Len(it) = Cardinality({k \in BKeys : shadow[k] # None})
    /\ b_last.op = "get" => b_last.res = shadow[b_last.key]

\* a value was overwritten in a tree of at least two levels whose leaves split
C18_Witness ==
  /\ b_pc = "run" /\ b_last.op = "insert"
  /\ shadow[b_last.key] = 2 /\ retrieve(tree, b_last.key) = 2
  /\ ~heap[root].leaf
  /\ \E k \in BKeys : shadow[k] = None
  /\ \E k \in BKeys : shadow[k] = 1

\* C19: after any sequence of insert and delete operations (deletes that
\* empty a leaf, inserts that split leaves and internal nodes), items() emits
\* keys in strictly ascending order.
C19_ItemsAscending ==
  b_pc = "run" =>
    LET it == items(tree)
    IN \A i, j \in 1 .. Len(it) : i < j => it[i][1] < it[j][1]

\* items() crosses an emptied leaf of a tree whose internal nodes have split
C19_Witness ==
  /\ b_pc = "run" /\ b_last.op = "insert"
  /\ \E a \in 1 .. Len(heap) : a # root /\ ~heap[a].leaf
  /\ \E a \in 1 .. Len(heap) : heap[a].leaf /\ heap[a].keys = << >> /\ heap[a].next # None
  /\ Len(items(tree)) >= 3

\* the nodes below the root
RECURSIVE Below(_, _)
Below(h, node) ==
  IF h[node].leaf THEN {}
  ELSE UNION {{h[node].children[i]} \cup Below(h, h[node].children[i]) :
                i \in 1 .. Len(h[node].children)}

\* ceil(order / 2) - 1
MinKeys(ord) == ((ord + 1) \div 2) - 1

\* C20: after any insert or delete completes, every non-root node (leaf or
\* internal) holds between ceil(order/2)-1 and order-1 keys.
C20_Occupancy ==
  (b_pc = "run" /\ b_last.op \in {"insert", "delete"}) =>
    \A a \in Below(heap, root) :
      /\ Len(heap[a].keys) >= MinKeys(order)
      /\ Len(heap[a].keys) <= order - 1

\* ------------------------------------------- _is_between on its arguments
\* Node._is_between reads nothing but its arguments: the specification
\* below draws them from the whole ring and applies the method once.
BetweenArgs ==
  {[op |-> "args", key |-> k, n1 |-> a, n2 |-> b, inclusive_end |-> e, res |-> FALSE] :
     k \in Ids, a \in Ids, b \in Ids, e \in BOOLEAN}

BetweenInit ==
  /\ last \in BetweenArgs
  /\ successor = << >>
  /\ predecessor = << >>
  /\ finger_table = << >>
  /\ storage = << >>
  /\ nodes = {}
  /\ pc = "idle"
  /\ churn = 0
  /\ writes = 0
  /\ fixed = {}
  /\ PastryIdle
  /\ BTreeIdle

is_between_call ==
  /\ last.op = "args"
  /\ last' = [last EXCEPT !.op = "_is_between",
                          !.res = _is_between(last.key, last.n1, last.n2, last.inclusive_end)]
  /\ UNCHANGED <<successor, predecessor, finger_table, storage, nodes, pc, churn, writes, fixed>>

BetweenNext == is_between_call /\ UNCHANGED <<pastry_vars, btree_vars>>

SpecBetween == BetweenInit /\ [][BetweenNext]_vars

\* steps from a clockwise to k, counted 1 .. RingSize: a itself is met again
\* only after a full turn
StepsClockwise(a, k) == IF k = a THEN RingSize ELSE (k - a) % RingSize

\* k is on the clockwise arc that leaves a and ends at b; the end point
\* counts when closed is set
OnArc(k, a, b, closed) ==
  \/ StepsClockwise(a, k) < StepsClockwise(a, b)
  \/ closed /\ k = b

\* C21: _is_between(k, a, b, inclusive_end) is true exactly when k lies on
\* the clockwise arc from a to b without a, b being part of the arc exactly
\* when inclusive_end is set; a > b (wrap) and a = b (full turn) included.
C21_IsBetweenIsArc ==
  last.op = "_is_between" =>
    (last.res <=> OnArc(last.key, last.n1, last.n2, last.inclusive_end))

\* a wrapping call that returns true for the end point of a closed arc
C21_Witness ==
  /\ last.op = "_is_between" /\ last.n1 > last.n2 /\ last.inclusive_end
  /\ last.key = last.n2 /\ last.res

\* ---------------------------------------------------- fingers after churn
\* every live node has run _fix_fingers on the ring of the initial wiring
WiredAndFixed == pc = "run" /\ churn = 0 /\ RingInOrder /\ nodes \subseteq fixed

FingerZeroIsSuccessor(succ, ft, S) == \A n \in S : ft[n][0] = succ[n]

\* C22: a join or a leave on a ring whose nodes have all run _fix_fingers
\* ends in a state where finger_table[0] of every live node is its successor.
C22_FingerZeroIsSuccessor ==
  [][(WiredAndFixed /\ FingerZeroIsSuccessor(successor, finger_table, nodes)
        /\ (JoinDone \/ LeaveDone))
      => FingerZeroIsSuccessor(successor', finger_table', nodes')]_vars

\* ------------------------------------------ wiring and joins over all ids
\* The ids are hashes of "ip:port": any set of ring points can be the node
\* list.  This specification wires every set of up to MaxWired points and
\* lets further points join; no data is stored.
WiringInit ==
  /\ successor = [n \in Ids |-> n]
  /\ predecessor = [n \in Ids |-> None]
  /\ finger_table = [n \in Ids |-> [i \in 0 .. (M - 1) |-> n]]
  /\ storage = [n \in Ids |-> EmptyStorage]
  /\ nodes = {}
  /\ pc = "new"
  /\ churn = 0
  /\ writes = 0
  /\ fixed = {}
  /\ last = NoOp
  /\ PastryIdle
  /\ BTreeIdle

WiringNext ==
  \/ \E S \in SUBSET Ids : Cardinality(S) \in 1 .. MaxWired /\ Wire(S)
                           /\ UNCHANGED <<pastry_vars, btree_vars>>
  \/ \E n \in Ids, k \in Ids : join(n, k) /\ UNCHANGED <<pastry_vars, btree_vars>>

SpecWiring == WiringInit /\ [][WiringNext]_vars

\* the point finger i of node n aims at
FingerStart(n, i) == (n + 2 ^ i) % RingSize

\* C23: on a ring whose pointers form the cycle of the live nodes in id
\* order, every finger i of a node that has run _fix_fingers (each node
\* during the wiring, the joiner inside join) is the first live node at or
\* clockwise after (id + 2^i) mod 2^m.
C23_FixedFingersResponsible ==
  (pc = "run" /\ RingInOrder) =>
    \A n \in fixed : \A i \in 0 .. (M - 1) :
      finger_table[n][i] = Responsible(nodes, FingerStart(n, i))

\* ------------------------------------------- termination of find_successor
\* every forward of the call chain goes to a node strictly inside the open
\* arc (current, key), strictly nearer to the key clockwise, and the chain
\* ends without meeting a node twice
WalkEnds(path, key) ==
  /\ \A i \in 1 .. (Len(path) - 1) :
       /\ path[i + 1] # Diverged
       /\ OnArc(path[i + 1], path[i], key, FALSE)
       /\ StepsClockwise(path[i + 1], key) < StepsClockwise(path[i], key)
  /\ \A i, j \in 1 .. Len(path) : i # j => path[i] # path[j]

AllWalksEnd(succ, ft) ==
  \A n \in DOMAIN succ : \A key \in Ids :
    /\ WalkEnds(Visited(succ, ft, n, key, RingSize), key)
    /\ find_successor(succ, ft, n, key) # Diverged

\* C24: in every state reached by wiring, join and leave, find_successor
\* called on any node object (departed ones included) for any key returns:
\* each forward goes to a node strictly inside (current, key), the clockwise
\* distance to the key strictly decreases and no node is visited twice.
\* Stated on the steps that change a pointer or a finger while no data has
\* been written: the data operations change neither, and before the first
\* such step every node is its own successor and returns at once.
C24_FindSuccessorTerminates ==
  [][(writes' = 0 /\ <<successor, finger_table>>' # <<successor, finger_table>>)
      => /\ \A n \in DOMAIN finger_table' : ~FixRaised(finger_table', n)
         /\ AllWalksEnd(successor', finger_table')]_vars

\* after a leave, a call that a stale finger forwards to the departed node
C24_Witness ==
  /\ pc = "run" /\ last.op = "leave" /\ writes = 0
  /\ \E n \in nodes : \E key \in Ids :
       LET path == Visited(successor, finger_table, n, key, RingSize)
       IN /\ \E i \in 2 .. Len(path) : path[i] = last.node
          /\ WalkEnds(path, key)

\* ------------------------------------- lookup_recursive on any leaf sets
\* The leaf sets are whatever update_leaf_set last assigned.  This
\* specification starts from every assignment of lists of up to
\* HarnessLeafSetSize node ids (the own id, repeated ids and one-sided
\* entries included) with every server accepting, and runs the handler.
HarnessLeafSetSize == 2

LeafSets == UNION {[1 .. k -> PastryIds] : k \in 0 .. HarnessLeafSetSize}

RouteInit ==
  /\ leaf_set \in [PastryIds -> LeafSets]
  /\ p_storage = [n \in PastryIds |-> PEmptyStorage]
  /\ server = [n \in PastryIds |-> "up"]
  /\ pastry_nodes = PastryIds
  /\ HAS_BPLUSTREE = FALSE
  /\ p_pc = "run"
  /\ p_churn = 0
  /\ p_writes = 0
  /\ p_last = PNoOp
  /\ ConcIdle
  /\ ChordIdle
  /\ BTreeIdle

\* one call per run: the handler changes nothing that a later call reads
RouteNext ==
  \E n \in PastryIds, key \in Ids, h \in HopsIn :
    /\ p_last.op = "none"
    /\ pastry_lookup_recursive(n, key, h)
    /\ UNCHANGED <<vars, btree_vars, conc_vars>>

SpecRoute == RouteInit /\ [][RouteNext]_pastry_vars

\* some node lists a node that does not list it back
OneSided(ls) == \E x, y \in PastryIds : x # y /\ y \in Elems(ls[x]) /\ x \notin Elems(ls[y])

\* C25: with every RPC delivered, lookup_recursive returns for every key on
\* every leaf-set assignment: each forward goes to a node whose distance
\* |id - key| is strictly smaller than the forwarding node's, no node is
\* visited twice, and the forwards made are at most the number of nodes
\* minus one.
C25_LookupRecursiveTerminates ==
  p_last.op = "lookup_recursive" =>
    LET key == p_last.val
        path == PVisited(leaf_set, server, p_last.node, key, Cardinality(PastryIds))
    IN /\ p_last.owner \in PastryIds
       /\ p_last.owner = path[Len(path)]
       /\ \A i \in 1 .. (Len(path) - 1) : Dist(path[i + 1], key) < Dist(path[i], key)
       /\ \A i, j \in 1 .. Len(path) : i # j => path[i] # path[j]
       /\ p_last.hops - p_last.hops_in = Len(path) - 1
       /\ p_last.hops - p_last.hops_in <= Cardinality(PastryIds) - 1

\* a call forwarded twice over leaf sets that are one-sided
C25_Witness ==
  /\ p_last.op = "lookup_recursive" /\ OneSided(leaf_set)
  /\ p_last.hops - p_last.hops_in = 2
  /\ p_last.owner \in PastryIds

\* ------------------------------------------- Pastry joins over all ids
\* The ids are hashes of "ip:port".  This specification wires every set of
\* up to MaxWired + 1 ring points as the harness does and lets one further
\* point join; no data is stored.
PJoinInit ==
  /\ leaf_set = [n \in Ids |-> << >>]
  /\ p_storage = [n \in Ids |-> PEmptyStorage]
  /\ server = [n \in Ids |-> "up"]
  /\ pastry_nodes = {}
  /\ HAS_BPLUSTREE \in BOOLEAN
  /\ p_pc = "new"
  /\ p_churn = 0
  /\ p_writes = 0
  /\ p_last = PNoOp
  /\ ConcIdle
  /\ ChordIdle
  /\ BTreeIdle

PJoinNext ==
  \/ \E S \in SUBSET Ids : Cardinality(S) \in 1 .. (MaxWired + 1) /\ PWire(S)
                           /\ UNCHANGED <<vars, btree_vars, conc_vars>>
  \/ \E n \in Ids, k \in Ids : pastry_join(n, k) /\ UNCHANGED <<vars, btree_vars, conc_vars>>

SpecPastryJoin == PJoinInit /\ [][PJoinNext]_pastry_vars

\* every member of the leaf set of every node of S is still a member
MembersKept(ls_before, ls_after, S) ==
  \A x \in S : Elems(ls_before[x]) \subseteq Elems(ls_after[x])

\* the lookups started at the nodes of S, for the keys whose owner before is
\* a node of S that the joiner n is not nearer to, end at the same owner
OwnersKept(ls_before, ls_after, srv, S, n) ==
  \A x \in S : \A key \in Ids :
    LET before == lookup_recursive(ls_before, srv, x, key, 0).node
    IN (before \in S /\ Dist(before, key) <= Dist(n, key)) =>
         lookup_recursive(ls_after, srv, x, key, 0).node = before

\* C26: a join of node n removes no member from the leaf set of any other
\* node, and the lookups between the existing nodes for the keys they own
\* return the same owner as before the join.
C26_JoinKeepsLeafSets ==
  [][PJoinDone =>
       LET n == p_last'.node
       IN /\ MembersKept(leaf_set, leaf_set', pastry_nodes)
          /\ OwnersKept(leaf_set, leaf_set', server, pastry_nodes, n)]_pastry_vars

\* --------------------------------------------------- concurrent key calls
\* handle_client runs every connection on a thread of its own and the
\* callers of the harness are threads too.  A key call is two steps: the
\* owner is resolved by lookup_recursive, then the *_local handler runs at
\* the owner.  The handler touches the index in one statement (a dict
\* operation, or one call into the bplustree library), which is one step;
\* the leaf sets never change here, so the forwards of one lookup_recursive
\* chain read the same lists in every interleaving and are one step as well.
NoCall == [op |-> "none", node |-> None, title |-> "", val |-> None,
           at |-> "start", target |-> None, res |-> None, applied |-> 0,
           overlap |-> FALSE]

ThreadOps == {"insert_key", "delete_key", "lookup_key"}

WiredLeafSets(S) ==
  [n \in PastryIds |-> IF n \in S THEN <<PrevInList(S, n), NextInList(S, n)>>
                                  ELSE << >>]

\* the indexes after insert_key(t, 1) was called at node from[t] for every
\* title t that has a node from[t]
RECURSIVE Loaded(_, _, _, _, _)
Loaded(ls, srv, bpt, from, todo) ==
  IF todo = {} THEN [n \in PastryIds |-> PEmptyStorage]
  ELSE LET t == CHOOSE x \in todo : TRUE
           sto == Loaded(ls, srv, bpt, from, todo \ {t})
       IN IF from[t] = None THEN sto
          ELSE insert_local(sto, srv, bpt,
                            lookup_recursive(ls, srv, from[t], _generate_hash(t), 0).node,
                            _generate_hash(t), 1)

ConcInit ==
  /\ HAS_BPLUSTREE \in BOOLEAN
  /\ server = [n \in PastryIds |-> "up"]
  /\ \E S \in SUBSET PastryIds :
       /\ Cardinality(S) \in 1 .. MaxWired
       /\ pastry_nodes = S
       /\ leaf_set = WiredLeafSets(S)
       /\ \E from \in [Titles -> S \cup {None}] :
            p_storage = Loaded(WiredLeafSets(S), server, HAS_BPLUSTREE, from, Titles)
  /\ p_loaded = p_storage
  /\ p_calls = << >>
  /\ p_pc = "run"
  /\ p_churn = 0
  /\ p_writes = 0
  /\ p_last = PNoOp
  /\ ChordIdle
  /\ BTreeIdle

\* a thread is started with a key call on node n
conc_start(op, n, title, data) ==
  /\ p_pc = "run" /\ n \in pastry_nodes /\ Len(p_calls) < MaxThreads
  /\ p_calls' = Append(p_calls,
       [NoCall EXCEPT !.op = op, !.node = n, !.title = title, !.val = data,
                      !.overlap = \E i \in 1 .. Len(p_calls) : p_calls[i].at # "done"])
  /\ UNCHANGED <<leaf_set, p_storage, server, pastry_nodes, HAS_BPLUSTREE,
                 p_pc, p_churn, p_writes, p_last, p_loaded>>

\* res = self.lookup_recursive(key_hex, 0); target = res['node']
conc_route(i) ==
  /\ i \in 1 .. Len(p_calls) /\ p_calls[i].at = "start"
  /\ LET c == p_calls[i]
         key_int == _generate_hash(c.title)
         res == lookup_recursive(leaf_set, server, c.node, key_int, 0)
     IN /\ res # PNone
        /\ p_calls' = [p_calls EXCEPT ![i].at = "routed", ![i].target = res.node]
        /\ server' = Drain(server, Contacted(leaf_set, server, c.node, key_int))
  /\ UNCHANGED <<leaf_set, p_storage, pastry_nodes, HAS_BPLUSTREE,
                 p_pc, p_churn, p_writes, p_last, p_loaded>>

\* the number of handlers that have touched an index so far
Applied == Cardinality({i \in 1 .. Len(p_calls) : p_calls[i].at = "done"})

\* handle_local_command for the *_local command of the key call c: the
\* indexes it leaves and the 'val' it replies with
HandlerEffect(sto, srv, bpt, c) ==
  IF c.op = "insert_key"
  THEN insert_local(sto, srv, bpt, c.target, _generate_hash(c.title), c.val)
  ELSE IF c.op = "delete_key"
  THEN delete_local(sto, srv, bpt, c.target, _generate_hash(c.title))
  ELSE sto

HandlerReply(sto, srv, bpt, c) ==
  IF c.op = "lookup_key"
  THEN lookup_local(sto, srv, bpt, c.target, _generate_hash(c.title))
  ELSE None

\* self.send_request(target, '<op>_local', ..): the handler at the owner
conc_local(i) ==
  /\ i \in 1 .. Len(p_calls) /\ p_calls[i].at = "routed"
  /\ p_storage' = HandlerEffect(p_storage, server, HAS_BPLUSTREE, p_calls[i])
  /\ p_calls' = [p_calls EXCEPT
       ![i].at = "done",
       ![i].applied = Applied + 1,
       ![i].res = HandlerReply(p_storage, server, HAS_BPLUSTREE, p_calls[i])]
  /\ UNCHANGED <<leaf_set, server, pastry_nodes, HAS_BPLUSTREE,
                 p_pc, p_churn, p_writes, p_last, p_loaded>>

ConcNext ==
  \/ \E n \in PastryIds, t \in Titles, v \in Values :
       conc_start("insert_key", n, t, v) /\ UNCHANGED <<vars, btree_vars>>
  \/ \E op \in ThreadOps \ {"insert_key"}, n \in PastryIds, t \in Titles :
       conc_start(op, n, t, None) /\ UNCHANGED <<vars, btree_vars>>
  \/ \E i \in 1 .. MaxThreads : conc_route(i) /\ UNCHANGED <<vars, btree_vars>>
  \/ \E i \in 1 .. MaxThreads : conc_local(i) /\ UNCHANGED <<vars, btree_vars>>

SpecPastryConc == ConcInit /\ [][ConcNext]_pastry_vars

\* every started thread has returned, and there are at least two
AllDone ==
  /\ Len(p_calls) >= 2
  /\ \A i \in 1 .. Len(p_calls) : p_calls[i].at = "done"

\* the threads ran at the same time
Overlapping == \E i \in 1 .. Len(p_calls) : p_calls[i].overlap

\* the orders in which n handlers can run one after the other
HandlerOrders(n) ==
  {f \in [1 .. n -> 1 .. n] : \A a, b \in 1 .. n : a # b => f[a] # f[b]}

\* the indexes after the first k handlers of the order ran one at a time
RECURSIVE SeqSto(_, _)
SeqSto(ord, k) ==
  IF k = 0 THEN p_loaded
  ELSE HandlerEffect(SeqSto(ord, k - 1), server, HAS_BPLUSTREE, p_calls[ord[k]])

\* some sequential order of the handlers gives every reply and the final indexes
Linearizable ==
  \E ord \in HandlerOrders(Len(p_calls)) :
    /\ \A k \in 1 .. Len(p_calls) :
         p_calls[ord[k]].res =
           HandlerReply(SeqSto(ord, k - 1), server, HAS_BPLUSTREE, p_calls[ord[k]])
    /\ SeqSto(ord, Len(p_calls)) = p_storage

\* the live nodes that hold an entry for key k
PHolders(sto, k) == {x \in pastry_nodes : sto[x][k] # None}

\* C27: the *_local handlers of concurrent threads are linearizable (some
\* sequential order of them gives every reply and the final indexes), and
\* after two concurrent insert_key calls of one title started at different
\* nodes exactly one entry for the key exists and its value is that of the
\* call whose insert_local ran last.
C27_HandlersLinearizable ==
  (AllDone /\ Overlapping) =>
    /\ Linearizable
    /\ \A i, j \in 1 .. Len(p_calls) :
         (/\ p_calls[i].op = "insert_key" /\ p_calls[j].op = "insert_key"
          /\ p_calls[i].title = p_calls[j].title
          /\ p_calls[i].node # p_calls[j].node
          /\ p_calls[i].applied < p_calls[j].applied) =>
           LET k == _generate_hash(p_calls[j].title)
           IN /\ Cardinality(PHolders(p_storage, k)) = 1
              /\ \A x \in PHolders(p_storage, k) :
                   PValue(p_storage, HAS_BPLUSTREE, x, k) = p_calls[j].val

\* what lookup_key(title) started at node n returns when it runs alone
LookupAlone(n, title) ==
  lookup_local(p_loaded, server, HAS_BPLUSTREE,
               lookup_recursive(leaf_set, server, n, _generate_hash(title), 0).node,
               _generate_hash(title))

\* C28: with no membership change and no write in progress, concurrent
\* lookup_key calls for stored titles, started at any live nodes, all return
\* the stored value (never null), each returns what it returns when run
\* alone, and no index and no leaf set is changed.
C28_ConcurrentLookups ==
  (/\ AllDone /\ Overlapping
   /\ \A i \in 1 .. Len(p_calls) :
        /\ p_calls[i].op = "lookup_key"
        /\ PHolders(p_loaded, _generate_hash(p_calls[i].title)) # {}) =>
    /\ \A i \in 1 .. Len(p_calls) :
         /\ p_calls[i].res # None
         /\ \A x \in PHolders(p_loaded, _generate_hash(p_calls[i].title)) :
              p_calls[i].res = PValue(p_loaded, HAS_BPLUSTREE, x, _generate_hash(p_calls[i].title))
         /\ p_calls[i].res = LookupAlone(p_calls[i].node, p_calls[i].title)
    /\ p_storage = p_loaded
    /\ leaf_set = WiredLeafSets(pastry_nodes)

====
